---- MODULE Spec2Model ----
(***************************************************************************)
(* Learning rate schedulers of creme/optim/schedulers.py.                  *)
(*                                                                         *)
(* A scheduler is built once by a constructor and then queried with        *)
(* get(t).  The model keeps one instance slot, the interpreter mode        *)
(* (__debug__), the last operation with its arguments and the outcomes of  *)
(* the last two get calls.                                                 *)
(*                                                                         *)
(* Python floats are binary floating point numbers: every arithmetic       *)
(* operation returns the exact result rounded to the nearest representable *)
(* value, ties to even.  The model keeps that rounding and scales the      *)
(* significand from 53 bits down to Prec bits.  A float is <<m, e>>,       *)
(* standing for m * 2^e, with m = 0 /\ e = 0 or 2^(Prec-1) <= |m| < 2^Prec.*)
(* The exponent is unbounded: overflow, underflow, infinities, NaN and the *)
(* sign of zero are not modelled.                                          *)
(***************************************************************************)
EXTENDS Integers, Sequences, FiniteSets, TLC

\* Number of significand bits of a float (53 in binary64, scaled down).
Prec == 4

\* ------------------------------------------------------------------------
\* Floating point arithmetic
\* ------------------------------------------------------------------------

RECURSIVE Pow2(_)
Pow2(k) == IF k <= 0 THEN 1 ELSE 2 * Pow2(k - 1)

Abs(x) == IF x < 0 THEN -x ELSE x

Sgn(x) == IF x < 0 THEN -1 ELSE IF x = 0 THEN 0 ELSE 1

Zero == <<0, 0>>

\* Round-half-even of the positive rational (n / d) * 2^e to Prec bits.
RECURSIVE RoundPos(_, _, _)
RoundPos(n, d, e) ==
    IF n >= d * Pow2(Prec) THEN RoundPos(n, 2 * d, e + 1)
    ELSE IF n < d * Pow2(Prec - 1) THEN RoundPos(2 * n, d, e - 1)
    ELSE LET q  == n \div d
             r  == n % d
             up == (2 * r > d) \/ (2 * r = d /\ q % 2 = 1)
             m  == IF up THEN q + 1 ELSE q
         IN  IF m = Pow2(Prec) THEN <<Pow2(Prec - 1), e + 1>> ELSE <<m, e>>

\* The float nearest to the rational (n / d) * 2^e, d # 0.
Round(n, d, e) ==
    IF n = 0 THEN Zero
    ELSE LET p == RoundPos(Abs(n), Abs(d), e)
         IN  <<Sgn(n) * Sgn(d) * p[1], p[2]>>

\* float(k) for an int k, and the float written n/d in the source text.
FromInt(k) == Round(k, 1, 0)
F(n, d) == Round(n, d, 0)
One == FromInt(1)

IsZero(a) == a[1] = 0

FNeg(a) == <<-a[1], a[2]>>

\* Exact integer numerators of a and b over the common scale 2^MinE(a, b).
MinE(a, b) == IF a[2] < b[2] THEN a[2] ELSE b[2]
Scaled(a, e) == a[1] * Pow2(a[2] - e)

FAdd(a, b) ==
    IF IsZero(a) THEN b
    ELSE IF IsZero(b) THEN a
    ELSE LET e == MinE(a, b) IN Round(Scaled(a, e) + Scaled(b, e), 1, e)

FSub(a, b) == FAdd(a, FNeg(b))

FMul(a, b) == Round(a[1] * b[1], 1, a[2] + b[2])

\* a / b for b # 0 (the caller raises ZeroDivisionError when b = 0).
FDiv(a, b) == Round(a[1], b[1], a[2] - b[2])

\* Comparisons are exact.
FCmp(a, b) ==
    IF IsZero(a) THEN -Sgn(b[1])
    ELSE IF IsZero(b) THEN Sgn(a[1])
    ELSE LET e == MinE(a, b) IN Sgn(Scaled(a, e) - Scaled(b, e))

FLt(a, b) == FCmp(a, b) < 0
FLe(a, b) == FCmp(a, b) <= 0
FGt(a, b) == FCmp(a, b) > 0
FGe(a, b) == FCmp(a, b) >= 0

\* max(a, b) of Python: b if b > a else a.
FMax(a, b) == IF FGt(b, a) THEN b ELSE a

\* x is a float holding an integer value.
IsIntegral(a) == IsZero(a) \/ a[2] >= 0 \/ a[1] % Pow2(-a[2]) = 0

\* The integer value of an integral float.
ToInt(a) == IF a[2] >= 0 THEN a[1] * Pow2(a[2]) ELSE a[1] \div Pow2(-a[2])

RECURSIVE IsqrtFrom(_, _)
IsqrtFrom(x, s) == IF (s + 1) * (s + 1) > x THEN s ELSE IsqrtFrom(x, s + 1)

\* Correctly rounded square root of the positive rational (n / d) * 2^e,
\* e even: the integer root of a scaled radicand carries Prec+1 bits and a
\* sticky bit says whether the root is inexact.
RECURSIVE SqrtRat(_, _, _)
SqrtRat(n, d, e) ==
    IF n < d * Pow2(2 * Prec) THEN SqrtRat(4 * n, d, e - 2)
    ELSE LET x  == n \div d
             q  == IsqrtFrom(x, Pow2(Prec))
             st == IF q * q * d = n THEN 0 ELSE 1
         IN  Round(2 * q + st, 2, e \div 2)

\* m * 2^e with the factors of two moved out of m.
RECURSIVE Odd(_)
Odd(a) == IF a[1] # 0 /\ a[1] % 2 = 0 THEN Odd(<<a[1] \div 2, a[2] + 1>>) ELSE a

\* math.sqrt(a) for a > 0.
FSqrt(a) ==
    LET o == Odd(a)
    IN  IF o[2] % 2 = 0 THEN SqrtRat(o[1], 1, o[2])
        ELSE SqrtRat(2 * o[1], 1, o[2] - 1)

RECURSIVE IPow(_, _)
IPow(b, k) == IF k <= 0 THEN 1 ELSE b * IPow(b, k - 1)

\* ------------------------------------------------------------------------
\* Python values
\* ------------------------------------------------------------------------

\* An attribute that has not been assigned, or no value.
None == <<>>

\* The argument c of Cyclic: an int n, or a float f.
CInt(k) == [isint |-> TRUE, num |-> k, flt |-> None]
CFloat(v) == [isint |-> FALSE, num |-> 0, flt |-> v]
NoC == [isint |-> FALSE, num |-> 0, flt |-> None]

\* A loss object: gradient(y_pred, y_true) returns g.
Loss(g) == [g |-> g]
NoLoss == [g |-> None]

\* The outcome of a call: a float, a complex number, or an exception.
Ok(v) == [exc |-> "none", val |-> v, complex |-> FALSE]
ComplexVal == [exc |-> "none", val |-> None, complex |-> TRUE]
Raise(e) == [exc |-> e, val |-> None, complex |-> FALSE]

\* An object of class cls with no attribute assigned yet.
Object(cls) ==
    [cls |-> cls, learning_rate |-> None, lr1 |-> None, lr2 |-> None,
     c |-> NoC, power |-> None, loss |-> NoLoss, alpha |-> None, t0 |-> None]

\* The remainder of C, which has the sign of a.
PyModTruncated(a, n) == Sgn(a) * (Abs(a) % Abs(n))

\* a % n of Python ints, n # 0: the result has the sign of n.
PyMod(a, n) == IF n > 0 THEN a % n ELSE -((-a) % (-n))

\* vx % wx of Python floats, wx # 0: the exact C fmod, moved to the sign
\* of wx.
FloatRem(vx, wx) ==
    IF IsZero(vx) THEN Zero
    ELSE LET e   == MinE(vx, wx)
             A   == Scaled(vx, e)
             B   == Scaled(wx, e)
             r   == Sgn(A) * (Abs(A) % Abs(B))
             mod == Round(r, 1, e)
         IN  IF r # 0 /\ ((B < 0) # (r < 0)) THEN FAdd(mod, wx) ELSE mod

\* |v| ^ w for v # 0 and w a multiple of 1/2, rounded once.
RealPow(v, w) ==
    LET o  == Odd(<<Abs(v[1]), v[2]>>)
        k2 == ToInt(FMul(w, FromInt(2)))
        M  == IPow(o[1], Abs(k2))
        E  == o[2] * Abs(k2)
    IN  IF k2 > 0
        THEN IF E % 2 = 0 THEN SqrtRat(M, 1, E) ELSE SqrtRat(2 * M, 1, E - 1)
        ELSE IF E % 2 = 0 THEN SqrtRat(1, M, -E) ELSE SqrtRat(1, 2 * M, -(E - 1))

\* pow(v, w) of two Python floats.
PyPow(v, w) ==
    IF IsZero(w) THEN Ok(One)
    ELSE IF IsZero(v)
         THEN IF FLt(w, Zero) THEN Raise("ZeroDivisionError") ELSE Ok(Zero)
    ELSE IF v[1] < 0 /\ ~IsIntegral(w) THEN ComplexVal
    ELSE IF v[1] < 0 /\ ToInt(w) % 2 = 1 THEN Ok(FNeg(RealPow(v, w)))
    ELSE Ok(RealPow(v, w))

\* ------------------------------------------------------------------------
\* The schedulers
\* ------------------------------------------------------------------------

\* A constructor returns the object as far as it was assigned, its outcome
\* and the number of calls it made to loss.gradient.
Constant_init(learning_rate) ==
    [obj   |-> [Object("Constant") EXCEPT !.learning_rate = learning_rate],
     ret   |-> Ok(None),
     calls |-> 0]

Constant_get(s, t) == Ok(s.learning_rate)

\* c > 0 for an int or a float c.
CPositive(c) == IF c.isint THEN c.num > 0 ELSE FGt(c.flt, Zero)

\* The assert statements run only when __debug__ is true.
Cyclic_init(dbg, lr1, lr2, c) ==
    IF dbg /\ ~FGe(lr1, lr2)
    THEN [obj |-> Object("Cyclic"), ret |-> Raise("AssertionError"), calls |-> 0]
    ELSE IF dbg /\ ~(CPositive(c) /\ c.isint)
    THEN [obj |-> Object("Cyclic"), ret |-> Raise("AssertionError"), calls |-> 0]
    ELSE [obj   |-> [Object("Cyclic") EXCEPT !.lr1 = lr1, !.lr2 = lr2, !.c = c],
          ret   |-> Ok(None),
          calls |-> 0]

\* (1 - ti) * lr1 + ti * lr2
Interpolate(ti, lr1, lr2) ==
    FAdd(FMul(FSub(One, ti), lr1), FMul(ti, lr2))

\* A cycle position counted from zero: (t % c) / c.
CyclePositionZeroBased(c, t) ==
    IF c.isint
    THEN Round(PyMod(t, c.num), c.num, 0)
    ELSE FDiv(FloatRem(FromInt(t), c.flt), c.flt)

\* A cycle position that never wraps around: t / c.
CyclePositionNoWrap(c, t) ==
    IF c.isint THEN Round(t, c.num, 0) ELSE FDiv(FromInt(t), c.flt)

\* ((t-1) % c + 1) / c
CyclePosition(c, t) ==
    IF c.isint
    THEN Round(PyMod(t - 1, c.num) + 1, c.num, 0)
    ELSE FDiv(FAdd(FloatRem(FromInt(t - 1), c.flt), One), c.flt)

CIsZero(c) == IF c.isint THEN c.num = 0 ELSE IsZero(c.flt)

Cyclic_get(s, t) ==
    IF CIsZero(s.c) THEN Raise("ZeroDivisionError")
    ELSE Ok(Interpolate(CyclePosition(s.c, t), s.lr1, s.lr2))

InverseScaling_init(learning_rate, power) ==
    [obj   |-> [Object("InverseScaling") EXCEPT
                    !.learning_rate = learning_rate, !.power = power],
     ret   |-> Ok(None),
     calls |-> 0]

\* The power schedule counted from t instead of t + 1.
InverseScaling_getFromT(s, t) ==
    LET p == PyPow(FromInt(t), s.power)
    IN  IF p.exc # "none" THEN p
        ELSE IF p.complex THEN ComplexVal
        ELSE IF IsZero(p.val) THEN Raise("ZeroDivisionError")
        ELSE Ok(FDiv(s.learning_rate, p.val))

\* The power schedule multiplying by (t + 1) ** power.
InverseScaling_getMultiplying(s, t) ==
    LET p == PyPow(FromInt(t + 1), s.power)
    IN  IF p.exc # "none" THEN p
        ELSE IF p.complex THEN ComplexVal
        ELSE Ok(FMul(s.learning_rate, p.val))

InverseScaling_get(s, t) ==
    LET p == PyPow(FromInt(t + 1), s.power)
    IN  IF p.exc # "none" THEN p
        ELSE IF p.complex THEN ComplexVal
        ELSE IF IsZero(p.val) THEN Raise("ZeroDivisionError")
        ELSE Ok(FDiv(s.learning_rate, p.val))

\* typw = math.sqrt(1. / math.sqrt(alpha)), for alpha > 0
Typw(alpha) == FSqrt(FDiv(One, FSqrt(alpha)))

\* The gradient clamped from below at 0.25 instead of 1.0.
InitialEta0LowClamp(typw, g) == FDiv(typw, FMax(F(1, 4), g))

\* initial_eta0 = typw / max(1.0, loss.gradient(-typw, 1.0))
InitialEta0(typw, g) == FDiv(typw, FMax(One, g))

\* The constructor taking the roots of abs(alpha).
Optimal_initAbs(loss, alpha) ==
    LET o == [Object("Optimal") EXCEPT !.loss = loss, !.alpha = alpha]
        a == <<Abs(alpha[1]), alpha[2]>>
    IN  IF IsZero(alpha)
        THEN [obj |-> o, ret |-> Raise("ZeroDivisionError"), calls |-> 0]
        ELSE LET typw         == Typw(a)
                 initial_eta0 == InitialEta0(typw, loss.g)
                 d            == FMul(initial_eta0, alpha)
             IN  [obj   |-> [o EXCEPT !.t0 = FDiv(One, d)],
                  ret   |-> Ok(None),
                  calls |-> 1]

Optimal_init(loss, alpha) ==
    LET o == [Object("Optimal") EXCEPT !.loss = loss, !.alpha = alpha]
    IN  IF FLt(alpha, Zero)
        THEN [obj |-> o, ret |-> Raise("ValueError"), calls |-> 0]
        ELSE IF IsZero(alpha)
        THEN [obj |-> o, ret |-> Raise("ZeroDivisionError"), calls |-> 0]
        ELSE LET typw         == Typw(alpha)
                 initial_eta0 == InitialEta0(typw, loss.g)
                 d            == FMul(initial_eta0, alpha)
             IN  IF IsZero(d)
                 THEN [obj |-> o, ret |-> Raise("ZeroDivisionError"), calls |-> 1]
                 ELSE [obj   |-> [o EXCEPT !.t0 = FDiv(One, d)],
                       ret   |-> Ok(None),
                       calls |-> 1]

Optimal_get(s, t) ==
    LET d == FMul(s.alpha, FAdd(s.t0, FromInt(t)))
    IN  IF IsZero(d) THEN Raise("ZeroDivisionError") ELSE Ok(FDiv(One, d))

\* Scheduler.get, dispatched on the class of the instance.
Scheduler_get(s, t) ==
    IF s.cls = "Constant" THEN Constant_get(s, t)
    ELSE IF s.cls = "Cyclic" THEN Cyclic_get(s, t)
    ELSE IF s.cls = "InverseScaling" THEN InverseScaling_get(s, t)
    ELSE Optimal_get(s, t)

\* ------------------------------------------------------------------------
\* Bounds and inputs
\* ------------------------------------------------------------------------

\* get is called with t in -NegT .. MaxT.
NegT == 3
MaxT == 6
Ts == (-NegT) .. MaxT

LearningRates == {F(0, 1), F(1, 2), F(1, 1), F(5, 4), F(1, 10), F(-1, 1)}
CycleLengths == {CInt(-1), CInt(0), CInt(1), CInt(2), CInt(3),
                 CFloat(F(5, 2)), CFloat(F(2, 1))}
Powers == {F(0, 1), F(1, 2), F(1, 1), F(3, 2), F(-1, 2), F(-1, 1)}
Alphas == {F(-1, 1), F(0, 1), F(1, 1), F(1, 16), F(1, 100), F(4, 1)}
Gradients == {F(-3, 1), F(0, 1), F(1, 2), F(1, 1), F(2, 1), F(3, 1)}

\* ------------------------------------------------------------------------
\* State
\* ------------------------------------------------------------------------

VARIABLES
    debug,           \* __debug__: FALSE when the interpreter runs with -O
    self,            \* the scheduler object, as far as __init__ assigned it
    built,           \* the constructor returned the instance to its caller
    call,            \* the last operation and its arguments
    ret,             \* the outcome of the last operation
    prev,            \* the get call before the last one, on this instance
    gradient_calls   \* calls of loss.gradient made for this instance

vars == <<debug, self, built, call, ret, prev, gradient_calls>>

Call(o, t, x, y, c) == [op |-> o, targ |-> t, xarg |-> x, yarg |-> y, carg |-> c]
NoPrev == [targ |-> 0, outcome |-> Ok(None), valid |-> FALSE]

Start ==
    /\ self = Object("None")
    /\ built = FALSE
    /\ call = Call("start", 0, None, None, NoC)
    /\ ret = Ok(None)
    /\ prev = NoPrev
    /\ gradient_calls = 0

Init == debug \in BOOLEAN /\ Start

InitAsserts == debug = TRUE /\ Start

\* One behaviour follows one instance: a constructor runs while no instance
\* exists, and the caller keeps the instance only when the constructor
\* returned.
Construct(r, c) ==
    /\ ~built
    /\ self' = r.obj
    /\ built' = (r.ret.exc = "none")
    /\ ret' = r.ret
    /\ gradient_calls' = r.calls
    /\ call' = c
    /\ prev' = NoPrev
    /\ UNCHANGED debug

NewConstant(learning_rate) ==
    Construct(Constant_init(learning_rate),
              Call("Constant", 0, learning_rate, None, NoC))

NewCyclic(lr1, lr2, c) ==
    Construct(Cyclic_init(debug, lr1, lr2, c), Call("Cyclic", 0, lr1, lr2, c))

NewInverseScaling(learning_rate, power) ==
    Construct(InverseScaling_init(learning_rate, power),
              Call("InverseScaling", 0, learning_rate, power, NoC))

NewOptimal(g, alpha) ==
    Construct(Optimal_init(Loss(g), alpha), Call("Optimal", 0, g, alpha, NoC))

\* A get that counts its calls in t0 of an Optimal instance.
GetCounting(t) ==
    /\ built
    /\ ret' = Scheduler_get(self, t)
    /\ call' = Call("get", t, None, None, NoC)
    /\ prev' = IF call.op = "get"
                THEN [targ |-> call.targ, outcome |-> ret, valid |-> TRUE]
                ELSE NoPrev
    /\ self' = IF self.cls = "Optimal"
                THEN [self EXCEPT !.t0 = FAdd(self.t0, One)]
                ELSE self
    /\ UNCHANGED <<debug, built, gradient_calls>>

\* get(t) on the instance: no attribute is assigned, loss is not used.
Get(t) ==
    /\ built
    /\ ret' = Scheduler_get(self, t)
    /\ call' = Call("get", t, None, None, NoC)
    /\ prev' = IF call.op = "get"
                THEN [targ |-> call.targ, outcome |-> ret, valid |-> TRUE]
                ELSE NoPrev
    /\ UNCHANGED <<debug, self, built, gradient_calls>>

Next ==
    \/ \E lr \in LearningRates : NewConstant(lr)
    \/ \E lr1 \in LearningRates, lr2 \in LearningRates, c \in CycleLengths :
            NewCyclic(lr1, lr2, c)
    \/ \E lr \in LearningRates, p \in Powers : NewInverseScaling(lr, p)
    \/ \E g \in Gradients, a \in Alphas : NewOptimal(g, a)
    \/ \E t \in Ts : Get(t)

\* Any interpreter mode.
Spec == Init /\ [][Next]_vars

\* The default interpreter mode: assert statements are executed.
SpecAsserts == InitAsserts /\ [][Next]_vars

\* ------------------------------------------------------------------------
\* Properties
\* ------------------------------------------------------------------------

GetCalled == built /\ call.op = "get"

\* Both of the last two calls were get calls.
TwoGets == GetCalled /\ prev.valid

\* A Cyclic instance whose arguments satisfy the constructor's conditions.
ValidCyclic ==
    /\ built
    /\ self.cls = "Cyclic"
    /\ FGe(self.lr1, self.lr2)
    /\ self.c.isint
    /\ self.c.num > 0

\* C1 (as stated): on a validly constructed Cyclic scheduler get(1) returns
\* lr1, the starting learning rate.
C1_FirstStepReturnsLr1 ==
    (ValidCyclic /\ GetCalled /\ call.targ = 1) => ret = Ok(self.lr1)

\* C1 (amended): on a validly constructed Cyclic scheduler get(1) returns
\* the interpolation at cycle position 1/c, (1 - 1/c) * lr1 + (1/c) * lr2,
\* which for c = 1 is lr2, the ending learning rate.
C1_FirstStepIsOneStepIn ==
    (ValidCyclic /\ GetCalled /\ call.targ = 1) =>
        /\ ret = Ok(Interpolate(Round(1, self.c.num, 0), self.lr1, self.lr2))
        /\ self.c.num = 1 => ret = Ok(self.lr2)

\* get(1) was called on a valid Cyclic scheduler with lr1 > lr2 and c = 1
\* and returned lr2.
C1_Witness ==
    /\ ValidCyclic /\ GetCalled /\ call.targ = 1
    /\ self.c.num = 1
    /\ FGt(self.lr1, self.lr2)
    /\ ret = Ok(self.lr2)

\* The last two get calls were get(0) and get(1), in either order.
ZeroAndOne == TwoGets /\ {call.targ, prev.targ} = {0, 1}

\* C2 (as stated): on a validly constructed Cyclic scheduler get(0) and
\* get(1) return the same rate, for every cycle length c.
C2_ZeroAndOneAgree == (ValidCyclic /\ ZeroAndOne) => ret = prev.outcome

\* C2 (amended): on a validly constructed Cyclic scheduler t = 0 maps to
\* the end of the cycle: get(0) returns lr2 and equals get(c); get(0) and
\* get(1) return the same rate when c = 1.
C2_ZeroIsCycleEnd ==
    /\ (ValidCyclic /\ GetCalled /\ call.targ = 0) => ret = Ok(self.lr2)
    /\ (ValidCyclic /\ TwoGets /\ {call.targ, prev.targ} = {0, self.c.num}) =>
            ret = prev.outcome
    /\ (ValidCyclic /\ ZeroAndOne /\ self.c.num = 1) => ret = prev.outcome

\* get(c) and then get(0) were called on a valid Cyclic scheduler with
\* lr1 > lr2 and c > 1, and both returned lr2.
C2_Witness ==
    /\ ValidCyclic /\ TwoGets
    /\ call.targ = 0 /\ prev.targ = self.c.num /\ self.c.num > 1
    /\ FGt(self.lr1, self.lr2)
    /\ ret = Ok(self.lr2) /\ prev.outcome = ret

\* C3: on a validly constructed Cyclic scheduler, for every t >= 1,
\* lr2 <= get(t) <= lr1, and get(c) = lr2.
C3_RateWithinBounds ==
    (ValidCyclic /\ GetCalled /\ call.targ >= 1) =>
        /\ ret.exc = "none"
        /\ FLe(self.lr2, ret.val)
        /\ FLe(ret.val, self.lr1)
        /\ call.targ = self.c.num => ret = Ok(self.lr2)

\* C9: on a validly constructed Cyclic scheduler get(t) = get(t + c) for
\* every t >= 1.
C9_Periodic ==
    (ValidCyclic /\ TwoGets /\ prev.targ >= 1 /\ call.targ = prev.targ + self.c.num) =>
        ret = prev.outcome

\* get(t) and then get(t + c) were called with c > 1 and lr1 > lr2, at a
\* position where the rate differs from the rate one step later.
C9_Witness ==
    /\ ValidCyclic /\ TwoGets
    /\ prev.targ >= 1 /\ call.targ = prev.targ + self.c.num
    /\ self.c.num > 1 /\ FGt(self.lr1, self.lr2)
    /\ ret = prev.outcome
    /\ ret # Cyclic_get(self, call.targ + 1)

\* The arguments of the last call, a Cyclic construction, break one of the
\* constructor's conditions.
BadCyclicArguments ==
    /\ call.op = "Cyclic"
    /\ FLt(call.xarg, call.yarg) \/ ~CPositive(call.carg) \/ ~call.carg.isint

\* C4: Cyclic construction fails, producing no instance and storing none of
\* lr1, lr2, c, whenever lr1 < lr2, c <= 0 or c is not an int; no Cyclic
\* instance has lr1 < lr2 or a non-positive or non-int c.
C4_CyclicRejectsBadArguments ==
    /\ BadCyclicArguments =>
            /\ ret.exc # "none"
            /\ ~built
            /\ self = Object("Cyclic")
    /\ (built /\ self.cls = "Cyclic") => ValidCyclic

\* The last call was get(t) with a negative t.
NegativeGet == GetCalled /\ call.targ < 0

\* C5 (as stated): get(t) raises no error for negative t, on any
\* successfully constructed scheduler.
C5_NegativeNeverRaises == NegativeGet => ret.exc = "none"

\* C5 (amended): for negative t, get(t) returns a value on a Constant and
\* on a validly constructed Cyclic scheduler; InverseScaling.get(-1) raises
\* ZeroDivisionError when power # 0, and Optimal.get(t) raises
\* ZeroDivisionError when t0 + t = 0.
C5_NegativeRaisesAtZeroDenominator ==
    NegativeGet =>
        /\ self.cls = "Constant" => ret = Ok(self.learning_rate)
        /\ ValidCyclic => ret.exc = "none" /\ ~ret.complex
        /\ (self.cls = "InverseScaling" /\ call.targ = -1 /\ ~IsZero(self.power))
               => ret = Raise("ZeroDivisionError")
        /\ (self.cls = "Optimal" /\ IsZero(FAdd(self.t0, FromInt(call.targ))))
               => ret = Raise("ZeroDivisionError")

\* get(-1) raised ZeroDivisionError on an InverseScaling scheduler with a
\* positive power.
C5_Witness ==
    /\ NegativeGet /\ call.targ = -1
    /\ self.cls = "InverseScaling" /\ FGt(self.power, Zero)
    /\ ret = Raise("ZeroDivisionError")

\* The last two calls were get(t) and get(t + 1), t >= 0, on an
\* InverseScaling scheduler with power > 0.
ConsecutiveInverseScaling ==
    /\ TwoGets
    /\ self.cls = "InverseScaling"
    /\ FGt(self.power, Zero)
    /\ prev.targ >= 0 /\ call.targ = prev.targ + 1

NotIncreasing ==
    /\ ret.exc = "none" /\ ~ret.complex
    /\ prev.outcome.exc = "none" /\ ~prev.outcome.complex
    /\ FLe(ret.val, prev.outcome.val)

\* C6 (as stated): for an InverseScaling scheduler with power > 0 and any
\* learning_rate, get(t + 1) <= get(t) for every t >= 0.
C6_NeverIncreases == ConsecutiveInverseScaling => NotIncreasing

\* C6 (amended): for an InverseScaling scheduler with power > 0 and
\* learning_rate >= 0, get(t + 1) <= get(t) for every t >= 0.
C6_NeverIncreasesFromNonNegative ==
    (ConsecutiveInverseScaling /\ FGe(self.learning_rate, Zero)) =>
        NotIncreasing

\* get(t) and get(t + 1) were called with power > 0 and learning_rate > 0
\* and the rate went strictly down.
C6_Witness ==
    /\ ConsecutiveInverseScaling
    /\ FGt(self.learning_rate, Zero)
    /\ NotIncreasing
    /\ FLt(ret.val, prev.outcome.val)

\* C7: a get call leaves every stored field unchanged and calls
\* loss.gradient no more, so that an Optimal instance has seen exactly one
\* call of loss.gradient, made by its constructor; get(t) returns what the
\* previous calls of get(t) returned, whatever was called in between.
C7_GetIsPure ==
    /\ [](built /\ self.cls = "Optimal" => gradient_calls = 1)
    /\ [](built /\ self.cls # "Optimal" => gradient_calls = 0)
    /\ [][call'.op = "get" =>
            /\ self' = self
            /\ built' = built
            /\ gradient_calls' = gradient_calls
            /\ (call.op = "get" /\ call'.targ = call.targ) => ret' = ret
            /\ (prev.valid /\ call'.targ = prev.targ) => ret' = prev.outcome]_vars

\* get(t), another get and get(t) again were called on an Optimal
\* scheduler; the first and the third call returned the same rate and the
\* call in between a different one.
C7_Witness ==
    /\ TwoGets
    /\ self.cls = "Optimal"
    /\ gradient_calls = 1
    /\ call.targ # prev.targ
    /\ ret.exc = "none" /\ ret # prev.outcome
    /\ Optimal_get(self, prev.targ) = prev.outcome

\* C8: Optimal construction with alpha <= 0 fails at construction time, so
\* that no Optimal instance has alpha <= 0.
C8_OptimalRejectsNonPositiveAlpha ==
    /\ (call.op = "Optimal" /\ FLe(call.yarg, Zero)) =>
            /\ ret.exc \in {"ValueError", "ZeroDivisionError"}
            /\ ~built
    /\ (built /\ self.cls = "Optimal") => FGt(self.alpha, Zero)

\* Optimal was constructed with alpha = 0 and raised ZeroDivisionError.
C8_Witness ==
    /\ call.op = "Optimal" /\ IsZero(call.yarg)
    /\ ret = Raise("ZeroDivisionError")
    /\ ~built

\* The values the constructor of the Optimal instance computed.
SelfTypw == Typw(self.alpha)
SelfEta0 == InitialEta0(SelfTypw, self.loss.g)

\* The clamp keeps 0 < initial_eta0 <= typw and t0 > 0, and get(t) divides
\* by a positive number for t >= 0.
PositiveDenominator ==
    /\ FGt(SelfEta0, Zero)
    /\ FLe(SelfEta0, SelfTypw)
    /\ FGt(self.t0, Zero)
    /\ \A t \in 0 .. MaxT : FGt(FMul(self.alpha, FAdd(self.t0, FromInt(t))), Zero)
    /\ (GetCalled /\ call.targ >= 0) =>
            ret.exc = "none" /\ ~ret.complex /\ FGt(ret.val, Zero)

\* C10 (as stated): for alpha > 0 and any gradient value, 0 < initial_eta0
\* <= typw, t0 > 0, the denominator of get is positive for t >= 0, and
\* get(0) equals initial_eta0.
C10_ClampedAndExact ==
    (built /\ self.cls = "Optimal") =>
        /\ PositiveDenominator
        /\ (GetCalled /\ call.targ = 0) => ret = Ok(SelfEta0)

\* C10 (amended): for alpha > 0 and any gradient value, 0 < initial_eta0
\* <= typw, t0 > 0, the denominator of get is positive for t >= 0, and
\* get(0) equals 1 / (alpha * t0), which is initial_eta0 up to the rounding
\* of the two divisions and two multiplications in between.
C10_ClampedAndRounded ==
    (built /\ self.cls = "Optimal") =>
        /\ PositiveDenominator
        /\ (GetCalled /\ call.targ = 0) =>
                ret = Ok(FDiv(One, FMul(self.alpha, self.t0)))

\* get(0) was called on an Optimal scheduler whose loss returned a
\* negative gradient, and returned a positive rate.
C10_Witness ==
    /\ GetCalled /\ call.targ = 0
    /\ self.cls = "Optimal"
    /\ FLt(self.loss.g, Zero)
    /\ ret.exc = "none"
    /\ FGt(ret.val, Zero)
    /\ SelfEta0 = SelfTypw
====
